---- MODULE Spec2Model ----
(***************************************************************************)
(* The two coalescing dispatch loops of pkg/ctrl/ctrl.go: VFOWheel (turn   *)
(* accumulator) and Slider / VolumeSlider (value coalescer), with their    *)
(* intake channels, the Slider's executor goroutine, the callers of the    *)
(* intake functions and the callers of Close.                              *)
(*                                                                         *)
(* One instance is constructed per behaviour (NewVFOWheel or               *)
(* NewVolumeSlider); the goroutines of the other kind do not exist and     *)
(* stay at "none".                                                         *)
(***************************************************************************)
EXTENDS Integers, Sequences, FiniteSets, TLC

\* Capacity of the buffered intake channels (make(chan int, 1000)), scaled down.
ChanCap == 1
\* Number of calls the callers make to each intake function and to Close.
MaxTurned == 3
MaxBaseline == 2
MaxChanged == 2
MaxVolume == 1
MaxClose == 2
\* Saturation of the count of handoffs of one selected value.
MaxSent == 2

\* Goroutines that may call Close.
Callers == {1, 2}
\* Arguments of Turned, SetVFOFrequency (frequency), Changed (MIDI value), SetVolume (dB).
TurnInputs == {3, 2, -1}
FrequencyInputs == {-10, 0, 10}
MidiInputs == {0, 64, 127}
VolumeInputs == {-60, 0}

VARIABLES
    \* VFOWheel: channels (buffer contents, closed flag) and the loop's locals
    w_turns, w_turnsClosed, w_frequency,
    accumulatedTurns, turning, frequency, err, wheelPc,
    \* Slider: channels, the loop's locals, the executor goroutine
    s_activeValue, s_activeClosed, s_selectedValue, s_selectedClosed,
    activeValue, selectedValue, pending, sliderPc, txPc, txValue,
    \* callers: a sender parked on a full channel (at most one per intake function)
    turnedSendq, frequencySendq, changedSendq, volumeSendq,
    nTurned, nBaseline, nChanged, nVolume,
    \* callers of Close
    closePc, nClose,
    \* a goroutine panicked (send on / close of a closed channel): the process is gone
    panicked,
    \* history: the select case the loop ran last (the wheel's with the value
    \* received or sent), and
    \* for the Slider the handoffs of the current tick window
    lastCase, winTargets, winHandoffs, lastTarget, sentCount,
    \* history: while the loop runs, an intake channel holds a value sent after
    \* a Close call had begun
    lateSend

wheelVars == <<w_turns, w_turnsClosed, w_frequency, accumulatedTurns, turning,
               frequency, err, wheelPc, turnedSendq, frequencySendq, nTurned, nBaseline>>
sliderVars == <<s_activeValue, s_activeClosed, s_selectedValue, s_selectedClosed,
                activeValue, selectedValue, pending, sliderPc, txPc, txValue,
                changedSendq, volumeSendq, nChanged, nVolume,
                winTargets, winHandoffs, lastTarget, sentCount>>
closeVars == <<closePc, nClose>>
vars == <<wheelVars, sliderVars, closeVars, panicked, lastCase, lateSend>>

----------------------------------------------------------------------------
\* Pure helpers

\* int(float64(accumulatedTurns) * 1.8): Go's conversion truncates toward zero.
ScaleRound(d) == IF d >= 0 THEN (d * 18 + 5) \div 10 ELSE -((-d * 18 + 5) \div 10)
Scale(d) == IF d >= 0 THEN (d * 18) \div 10 ELSE -((-d * 18) \div 10)

\* VolumeSlider's translate: -60 + int(float64(v) * (60.0/127.0)), v a MIDI value 0..127.
Translate(v) == -60 + (v * 60) \div 127

\* The closed channels: closed by the loop goroutine's deferred close when it returns.
w_closed == wheelPc = "done"
s_closed == sliderPc = "done"

\* A receive from a buffered channel whose sender queue holds a parked sender:
\* the head is taken and the parked value moves into the buffer.
AfterRecv(buf, sendq) == Tail(buf) \o sendq

----------------------------------------------------------------------------
\* Construction

InitWheelNone ==
    /\ w_turns = <<>> /\ w_turnsClosed = FALSE /\ w_frequency = <<>>
    /\ accumulatedTurns = 0 /\ turning = FALSE /\ frequency = 0 /\ err = FALSE
    /\ turnedSendq = <<>> /\ frequencySendq = <<>> /\ nTurned = 0 /\ nBaseline = 0

InitSliderNone ==
    /\ s_activeValue = <<>> /\ s_activeClosed = FALSE
    /\ s_selectedValue = <<>> /\ s_selectedClosed = FALSE
    /\ activeValue = 0 /\ selectedValue = 0 /\ pending = FALSE
    /\ txValue = 0
    /\ changedSendq = <<>> /\ volumeSendq = <<>> /\ nChanged = 0 /\ nVolume = 0
    /\ winTargets = 0 /\ winHandoffs = 0 /\ lastTarget = 0 /\ sentCount = 0

InitCommon ==
    /\ closePc = [c \in Callers |-> "idle"] /\ nClose = 0
    /\ panicked = FALSE /\ lastCase = <<"none", 0>> /\ lateSend = FALSE

NewVFOWheel ==
    /\ InitWheelNone /\ InitSliderNone /\ InitCommon
    /\ wheelPc = "select" /\ sliderPc = "none" /\ txPc = "none"

NewVolumeSlider ==
    /\ InitWheelNone /\ InitSliderNone /\ InitCommon
    /\ wheelPc = "none" /\ sliderPc = "select" /\ txPc = "enter"

Init == NewVFOWheel \/ NewVolumeSlider

----------------------------------------------------------------------------
\* VFOWheel: callers of the intake functions

\* w.turns <- turns
Turned(turns) ==
    /\ ~panicked
    /\ wheelPc # "none" /\ turnedSendq = <<>> /\ nTurned < MaxTurned
    /\ nTurned' = nTurned + 1
    /\ IF w_turnsClosed
         THEN panicked' = TRUE /\ UNCHANGED <<w_turns, turnedSendq>>
         ELSE /\ UNCHANGED panicked
              /\ IF Len(w_turns) < ChanCap
                   THEN w_turns' = Append(w_turns, turns) /\ UNCHANGED turnedSendq
                   ELSE turnedSendq' = <<turns>> /\ UNCHANGED w_turns
    /\ UNCHANGED <<w_turnsClosed, w_frequency, accumulatedTurns, turning, frequency,
                   err, wheelPc, frequencySendq, nBaseline>>
    /\ UNCHANGED <<sliderVars, closeVars, lastCase>>
    /\ lateSend' = (lateSend \/ (nClose > 0 /\ ~w_closed))

\* if trx != w.trx || vfo != w.vfo { return }; w.frequency <- frequency
SetVFOFrequency(match, f) ==
    /\ ~panicked
    /\ wheelPc # "none" /\ frequencySendq = <<>> /\ nBaseline < MaxBaseline
    /\ nBaseline' = nBaseline + 1
    /\ IF ~match
         THEN UNCHANGED <<w_frequency, frequencySendq>>
         ELSE IF Len(w_frequency) < ChanCap
                THEN w_frequency' = Append(w_frequency, f) /\ UNCHANGED frequencySendq
                ELSE frequencySendq' = <<f>> /\ UNCHANGED w_frequency
    /\ UNCHANGED <<w_turns, w_turnsClosed, accumulatedTurns, turning, frequency,
                   err, wheelPc, turnedSendq, nTurned>>
    /\ UNCHANGED <<sliderVars, closeVars, panicked, lastCase>>
    /\ lateSend' = (lateSend \/ (nClose > 0 /\ ~w_closed))

----------------------------------------------------------------------------
\* VFOWheel: the loop goroutine

\* turning = frequency > 0
TurningNonZero(f) == f # 0
TurningAfterTurn(f) == f > 0

\* accumulatedTurns += turns
AccumulateLast(acc, turns) == turns
Accumulate(acc, turns) == acc + turns

\* case turns, valid := <-result.turns, valid: a buffered value is received
WheelTurns ==
    /\ ~panicked
    /\ wheelPc = "select" /\ w_turns # <<>>
    /\ accumulatedTurns' = Accumulate(accumulatedTurns, Head(w_turns))
    /\ turning' = TurningAfterTurn(frequency)
    /\ w_turns' = AfterRecv(w_turns, turnedSendq)
    /\ turnedSendq' = <<>>
    /\ lastCase' = <<"turns", Head(w_turns)>>
    /\ UNCHANGED <<w_turnsClosed, w_frequency, frequency, err, wheelPc,
                   frequencySendq, nTurned, nBaseline>>
    /\ UNCHANGED <<sliderVars, closeVars, panicked>>
    /\ lateSend' = (lateSend /\ w_turns' \o w_frequency' \o turnedSendq' \o frequencySendq' # <<>>)

\* case turns, valid := <-result.turns, !valid: return; the deferred calls stop
\* the ticker and close result.closed
WheelExit ==
    /\ ~panicked
    /\ wheelPc = "select" /\ w_turns = <<>> /\ w_turnsClosed
    /\ wheelPc' = "done"
    /\ lastCase' = <<"exit", 0>>
    /\ UNCHANGED <<w_turns, w_turnsClosed, w_frequency, accumulatedTurns, turning,
                   frequency, err, turnedSendq, frequencySendq, nTurned, nBaseline>>
    /\ UNCHANGED <<sliderVars, closeVars, panicked>>
    /\ lateSend' = FALSE

\* if !turning { frequency = f }
BaselineAlways(isTurning, old, f) == f
BaselineAfter(isTurning, old, f) == IF ~isTurning THEN f ELSE old

\* case f := <-result.frequency
WheelFrequency ==
    /\ ~panicked
    /\ wheelPc = "select" /\ w_frequency # <<>>
    /\ frequency' = BaselineAfter(turning, frequency, Head(w_frequency))
    /\ w_frequency' = AfterRecv(w_frequency, frequencySendq)
    /\ frequencySendq' = <<>>
    /\ lastCase' = <<"frequency", Head(w_frequency)>>
    /\ UNCHANGED <<w_turns, w_turnsClosed, accumulatedTurns, turning, err, wheelPc,
                   turnedSendq, nTurned, nBaseline>>
    /\ UNCHANGED <<sliderVars, closeVars, panicked>>
    /\ lateSend' = (lateSend /\ w_turns' \o w_frequency' \o turnedSendq' \o frequencySendq' # <<>>)

\* else if accumulatedTurns != 0 && frequency != 0
DispatchAnyBaseline(acc, f) == acc # 0
DispatchDue(acc, f) == acc # 0 /\ f # 0

\* case <-ticker.C, up to the start of the controller call
WheelTick ==
    /\ ~panicked
    /\ wheelPc = "select"
    /\ lastCase' = <<"tick", 0>>
    /\ IF accumulatedTurns = 0
         THEN turning' = FALSE /\ UNCHANGED <<frequency, wheelPc>>
         ELSE IF DispatchDue(accumulatedTurns, frequency)
                THEN /\ frequency' = frequency + Scale(accumulatedTurns)
                     /\ wheelPc' = "call"
                     /\ UNCHANGED turning
                ELSE UNCHANGED <<turning, frequency, wheelPc>>
    /\ UNCHANGED <<w_turns, w_turnsClosed, w_frequency, accumulatedTurns, err,
                   turnedSendq, frequencySendq, nTurned, nBaseline>>
    /\ UNCHANGED <<sliderVars, closeVars, panicked>>
    /\ UNCHANGED lateSend

\* accumulatedTurns = 0, whether or not the call returned an error
AfterCallRetry(acc, e) == IF e THEN acc ELSE 0
AfterCall(acc, e) == 0

\* result.controller.SetVFOFrequency(result.trx, result.vfo, frequency) returns;
\* an error is logged; accumulatedTurns = 0
WheelCallReturn(e) ==
    /\ ~panicked
    /\ wheelPc = "call"
    /\ err' = e
    /\ accumulatedTurns' = AfterCall(accumulatedTurns, e)
    /\ wheelPc' = "select"
    /\ lastCase' = <<"dispatched", frequency>>
    /\ UNCHANGED <<w_turns, w_turnsClosed, w_frequency, turning, frequency,
                   turnedSendq, frequencySendq, nTurned, nBaseline>>
    /\ UNCHANGED <<sliderVars, closeVars, panicked>>
    /\ UNCHANGED lateSend

----------------------------------------------------------------------------
\* VFOWheel.Close, by caller c

\* the select in Close: case <-closed is ready iff the closed channel is closed
CloseBranchDefault(isClosed) == "default"
CloseBranch(isClosed) == IF isClosed THEN "returned" ELSE "default"

\* select { case <-w.closed: return; default: ... }
WheelCloseSelect(c) ==
    /\ ~panicked
    /\ wheelPc # "none" /\ closePc[c] \in {"idle", "returned"} /\ nClose < MaxClose
    /\ nClose' = nClose + 1
    /\ closePc' = [closePc EXCEPT ![c] = CloseBranch(w_closed)]
    /\ UNCHANGED <<wheelVars, sliderVars, panicked, lastCase>>
    /\ UNCHANGED lateSend

\* close(w.turns): panics if w.turns is closed already, and a sender parked on
\* the channel panics
WheelCloseTurns(c) ==
    /\ ~panicked
    /\ wheelPc # "none" /\ closePc[c] = "default"
    /\ closePc' = [closePc EXCEPT ![c] = "wait"]
    /\ w_turnsClosed' = TRUE
    /\ panicked' = (w_turnsClosed \/ turnedSendq # <<>>)
    /\ UNCHANGED <<w_turns, w_frequency, accumulatedTurns, turning, frequency, err,
                   wheelPc, turnedSendq, frequencySendq, nTurned, nBaseline>>
    /\ UNCHANGED <<sliderVars, nClose, lastCase>>
    /\ UNCHANGED lateSend

\* <-w.closed
WheelCloseWait(c) ==
    /\ ~panicked
    /\ wheelPc # "none" /\ closePc[c] = "wait" /\ w_closed
    /\ closePc' = [closePc EXCEPT ![c] = "returned"]
    /\ UNCHANGED <<wheelVars, sliderVars, nClose, panicked, lastCase>>
    /\ UNCHANGED lateSend

WheelNext ==
    \/ \E t \in TurnInputs : Turned(t)
    \/ \E m \in BOOLEAN, f \in FrequencyInputs : SetVFOFrequency(m, f)
    \/ WheelTurns
    \/ WheelExit
    \/ WheelFrequency
    \/ WheelTick
    \/ \E e \in BOOLEAN : WheelCallReturn(e)
    \/ \E c \in Callers : WheelCloseSelect(c)
    \/ \E c \in Callers : WheelCloseTurns(c)
    \/ \E c \in Callers : WheelCloseWait(c)

----------------------------------------------------------------------------
\* Slider / VolumeSlider: callers of the intake functions

\* s.selectedValue <- s.translate(value)
Changed(value) ==
    /\ ~panicked
    /\ sliderPc # "none" /\ changedSendq = <<>> /\ nChanged < MaxChanged
    /\ nChanged' = nChanged + 1
    /\ IF s_selectedClosed
         THEN panicked' = TRUE /\ UNCHANGED <<s_selectedValue, changedSendq>>
         ELSE /\ UNCHANGED panicked
              /\ IF Len(s_selectedValue) < ChanCap
                   THEN /\ s_selectedValue' = Append(s_selectedValue, Translate(value))
                        /\ UNCHANGED changedSendq
                   ELSE /\ changedSendq' = <<Translate(value)>>
                        /\ UNCHANGED s_selectedValue
    /\ UNCHANGED <<s_activeValue, s_activeClosed, s_selectedClosed, activeValue,
                   selectedValue, pending, sliderPc, txPc, txValue, volumeSendq,
                   nVolume, winTargets, winHandoffs, lastTarget, sentCount>>
    /\ UNCHANGED <<wheelVars, closeVars, lastCase>>
    /\ lateSend' = (lateSend \/ (nClose > 0 /\ ~s_closed))

\* s.activeValue <- volume
SetVolume(volume) ==
    /\ ~panicked
    /\ sliderPc # "none" /\ volumeSendq = <<>> /\ nVolume < MaxVolume
    /\ nVolume' = nVolume + 1
    /\ IF s_activeClosed
         THEN panicked' = TRUE /\ UNCHANGED <<s_activeValue, volumeSendq>>
         ELSE /\ UNCHANGED panicked
              /\ IF Len(s_activeValue) < ChanCap
                   THEN s_activeValue' = Append(s_activeValue, volume) /\ UNCHANGED volumeSendq
                   ELSE volumeSendq' = <<volume>> /\ UNCHANGED s_activeValue
    /\ UNCHANGED <<s_activeClosed, s_selectedValue, s_selectedClosed, activeValue,
                   selectedValue, pending, sliderPc, txPc, txValue, changedSendq,
                   nChanged, winTargets, winHandoffs, lastTarget, sentCount>>
    /\ UNCHANGED <<wheelVars, closeVars, lastCase>>
    /\ lateSend' = (lateSend \/ (nClose > 0 /\ ~s_closed))

----------------------------------------------------------------------------
\* Slider: the decision loop goroutine

\* select { case tx <- selectedValue: ...; default: ... } on the unbuffered tx:
\* the send goes through only if the executor is parked in its receive.
ReceiverAlways == TRUE
ReceiverParked == txPc = "wait"

\* the value the loop sends on tx
HandoffActive(sel, act) == act
HandoffValue(sel, act) == sel

\* the guard in front of the send: if activeValue == selectedValue { continue }
AttemptAlways(act, sel) == TRUE
AttemptDue(act, sel) == act # sel

\* the saturating count of handoffs of the present selectedValue
Bump(n) == IF n < MaxSent THEN n + 1 ELSE n

\* if !pending { selectedValue = activeValue }
SelectedAlways(isPending, sel, act) == act
SelectedAfterActive(isPending, sel, act) == IF ~isPending THEN act ELSE sel

\* case value, valid := <-s.activeValue, valid
SliderActive ==
    /\ ~panicked
    /\ sliderPc = "select" /\ s_activeValue # <<>>
    /\ activeValue' = Head(s_activeValue)
    /\ selectedValue' = SelectedAfterActive(pending, selectedValue, Head(s_activeValue))
    /\ sentCount' = IF selectedValue' # selectedValue THEN 0 ELSE sentCount
    /\ s_activeValue' = AfterRecv(s_activeValue, volumeSendq)
    /\ volumeSendq' = <<>>
    /\ lastCase' = <<"active", 0>>
    /\ UNCHANGED <<s_activeClosed, s_selectedValue, s_selectedClosed, pending, sliderPc,
                   txPc, txValue, changedSendq, nChanged, nVolume,
                   winTargets, winHandoffs, lastTarget>>
    /\ UNCHANGED <<wheelVars, closeVars, panicked>>
    /\ lateSend' = (lateSend /\ s_activeValue' \o s_selectedValue' \o volumeSendq' \o changedSendq' # <<>>)

\* case value, valid := <-s.activeValue, !valid: return (deferred close(s.closed))
SliderActiveExit ==
    /\ ~panicked
    /\ sliderPc = "select" /\ s_activeValue = <<>> /\ s_activeClosed
    /\ sliderPc' = "done"
    /\ lastCase' = <<"exit", 0>>
    /\ UNCHANGED <<s_activeValue, s_activeClosed, s_selectedValue, s_selectedClosed,
                   activeValue, selectedValue, pending, txPc, txValue, changedSendq,
                   volumeSendq, nChanged, nVolume, winTargets, winHandoffs, lastTarget,
                   sentCount>>
    /\ UNCHANGED <<wheelVars, closeVars, panicked>>
    /\ lateSend' = FALSE

\* case value, valid := <-s.selectedValue, valid
SliderSelected ==
    /\ ~panicked
    /\ sliderPc = "select" /\ s_selectedValue # <<>>
    /\ selectedValue' = Head(s_selectedValue)
    /\ s_selectedValue' = AfterRecv(s_selectedValue, changedSendq)
    /\ changedSendq' = <<>>
    /\ lastCase' = <<"selected", 0>>
    /\ lastTarget' = Head(s_selectedValue)
    /\ winTargets' = winTargets + 1
    /\ IF ~AttemptDue(activeValue, selectedValue')
         THEN /\ sentCount' = 0
              /\ UNCHANGED <<pending, txPc, txValue, winHandoffs>>
         ELSE IF ReceiverParked
                THEN /\ txPc' = "recv"
                     /\ txValue' = HandoffValue(selectedValue', activeValue)
                     /\ pending' = FALSE
                     /\ winHandoffs' = winHandoffs + 1
                     /\ sentCount' = 1
                ELSE /\ pending' = TRUE
                     /\ sentCount' = 0
                     /\ UNCHANGED <<txPc, txValue, winHandoffs>>
    /\ UNCHANGED <<s_activeValue, s_activeClosed, s_selectedClosed, activeValue, sliderPc,
                   volumeSendq, nChanged, nVolume>>
    /\ UNCHANGED <<wheelVars, closeVars, panicked>>
    /\ lateSend' = (lateSend /\ s_activeValue' \o s_selectedValue' \o volumeSendq' \o changedSendq' # <<>>)

\* case value, valid := <-s.selectedValue, !valid: return (deferred close(s.closed))
SliderSelectedExit ==
    /\ ~panicked
    /\ sliderPc = "select" /\ s_selectedValue = <<>> /\ s_selectedClosed
    /\ sliderPc' = "done"
    /\ lastCase' = <<"exit", 0>>
    /\ UNCHANGED <<s_activeValue, s_activeClosed, s_selectedValue, s_selectedClosed,
                   activeValue, selectedValue, pending, txPc, txValue, changedSendq,
                   volumeSendq, nChanged, nVolume, winTargets, winHandoffs, lastTarget,
                   sentCount>>
    /\ UNCHANGED <<wheelVars, closeVars, panicked>>
    /\ lateSend' = FALSE

\* case <-ticker.C
SliderTick ==
    /\ ~panicked
    /\ sliderPc = "select"
    /\ lastCase' = <<"tick", 0>>
    /\ winTargets' = 0
    /\ winHandoffs' = 0
    /\ IF ~AttemptDue(activeValue, selectedValue)
         THEN /\ pending' = FALSE
              /\ UNCHANGED <<txPc, txValue, sentCount>>
         ELSE IF ReceiverParked
                THEN /\ txPc' = "recv"
                     /\ txValue' = HandoffValue(selectedValue, activeValue)
                     /\ pending' = FALSE
                     /\ sentCount' = Bump(sentCount)
                ELSE /\ pending' = TRUE
                     /\ UNCHANGED <<txPc, txValue, sentCount>>
    /\ UNCHANGED <<s_activeValue, s_activeClosed, s_selectedValue, s_selectedClosed,
                   activeValue, selectedValue, sliderPc, changedSendq, volumeSendq,
                   nChanged, nVolume, lastTarget>>
    /\ UNCHANGED <<wheelVars, closeVars, panicked>>
    /\ UNCHANGED lateSend

----------------------------------------------------------------------------
\* Slider: the executor goroutine

txRest == <<s_activeValue, s_activeClosed, s_selectedValue, s_selectedClosed,
            activeValue, selectedValue, pending, sliderPc, changedSendq, volumeSendq,
            nChanged, nVolume, winTargets, winHandoffs, lastTarget, sentCount>>

\* case <-s.closed is ready once the loop has closed s.closed; tx is never closed
ExitOnTxClosed(closed) == FALSE
ExitReady(closed) == closed

\* the executor reaches its select and parks: neither case is ready
TxPark ==
    /\ ~panicked
    /\ txPc = "enter" /\ ~ExitReady(s_closed)
    /\ txPc' = "wait"
    /\ UNCHANGED <<txValue, txRest, wheelVars, closeVars, panicked, lastCase>>
    /\ UNCHANGED lateSend

\* case <-s.closed: return
TxExit ==
    /\ ~panicked
    /\ txPc \in {"enter", "wait"} /\ ExitReady(s_closed)
    /\ txPc' = "done"
    /\ UNCHANGED <<txValue, txRest, wheelVars, closeVars, panicked, lastCase>>
    /\ UNCHANGED lateSend

\* case value := <-tx has received; the goroutine runs on and calls s.set(value)
TxSet ==
    /\ ~panicked
    /\ txPc = "recv"
    /\ txPc' = "set"
    /\ UNCHANGED <<txValue, txRest, wheelVars, closeVars, panicked, lastCase>>
    /\ UNCHANGED lateSend

\* s.set(value) returns (controller.SetVolume's error is logged)
TxReturn(e) ==
    /\ ~panicked
    /\ txPc = "set"
    /\ txPc' = "enter"
    /\ UNCHANGED <<txValue, txRest, wheelVars, closeVars, panicked, lastCase>>
    /\ UNCHANGED lateSend

----------------------------------------------------------------------------
\* Slider.Close, by caller c

\* select { case <-s.closed: return; default: ... }
SliderCloseSelect(c) ==
    /\ ~panicked
    /\ sliderPc # "none" /\ closePc[c] \in {"idle", "returned"} /\ nClose < MaxClose
    /\ nClose' = nClose + 1
    /\ closePc' = [closePc EXCEPT ![c] = CloseBranch(s_closed)]
    /\ UNCHANGED <<wheelVars, sliderVars, panicked, lastCase>>
    /\ UNCHANGED lateSend

\* close(s.activeValue)
SliderCloseActive(c) ==
    /\ ~panicked
    /\ sliderPc # "none" /\ closePc[c] = "default"
    /\ closePc' = [closePc EXCEPT ![c] = "closing"]
    /\ s_activeClosed' = TRUE
    /\ panicked' = (s_activeClosed \/ volumeSendq # <<>>)
    /\ UNCHANGED <<s_activeValue, s_selectedValue, s_selectedClosed, activeValue,
                   selectedValue, pending, sliderPc, txPc, txValue, changedSendq,
                   volumeSendq, nChanged, nVolume, winTargets, winHandoffs, lastTarget,
                   sentCount>>
    /\ UNCHANGED <<wheelVars, nClose, lastCase>>
    /\ UNCHANGED lateSend

\* close(s.selectedValue)
SliderCloseSelected(c) ==
    /\ ~panicked
    /\ sliderPc # "none" /\ closePc[c] = "closing"
    /\ closePc' = [closePc EXCEPT ![c] = "wait"]
    /\ s_selectedClosed' = TRUE
    /\ panicked' = (s_selectedClosed \/ changedSendq # <<>>)
    /\ UNCHANGED <<s_activeValue, s_activeClosed, s_selectedValue, activeValue,
                   selectedValue, pending, sliderPc, txPc, txValue, changedSendq,
                   volumeSendq, nChanged, nVolume, winTargets, winHandoffs, lastTarget,
                   sentCount>>
    /\ UNCHANGED <<wheelVars, nClose, lastCase>>
    /\ UNCHANGED lateSend

\* <-s.closed
SliderCloseWait(c) ==
    /\ ~panicked
    /\ sliderPc # "none" /\ closePc[c] = "wait" /\ s_closed
    /\ closePc' = [closePc EXCEPT ![c] = "returned"]
    /\ UNCHANGED <<wheelVars, sliderVars, nClose, panicked, lastCase>>
    /\ UNCHANGED lateSend

SliderNext ==
    \/ \E v \in MidiInputs : Changed(v)
    \/ \E v \in VolumeInputs : SetVolume(v)
    \/ SliderActive
    \/ SliderActiveExit
    \/ SliderSelected
    \/ SliderSelectedExit
    \/ SliderTick
    \/ TxPark
    \/ TxExit
    \/ TxSet
    \/ \E e \in BOOLEAN : TxReturn(e)
    \/ \E c \in Callers : SliderCloseSelect(c)
    \/ \E c \in Callers : SliderCloseActive(c)
    \/ \E c \in Callers : SliderCloseSelected(c)
    \/ \E c \in Callers : SliderCloseWait(c)

----------------------------------------------------------------------------
\* The program (a panic ends the process: no goroutine takes a step after it)

Next == WheelNext \/ SliderNext

Spec == Init /\ [][Next]_vars

\* One kind of instance alone.
WheelSpec == NewVFOWheel /\ [][WheelNext]_vars
SliderSpec == NewVolumeSlider /\ [][SliderNext]_vars

\* The Slider alone, with the scheduling the runtime provides: the ticker keeps
\* firing, and the executor goroutine keeps running (each s.set call returns).
SliderFairSpec ==
    /\ NewVolumeSlider
    /\ [][SliderNext]_vars
    /\ WF_vars(SliderTick)
    /\ WF_vars(TxPark)
    /\ WF_vars(TxSet)
    /\ WF_vars(\E e \in BOOLEAN : TxReturn(e))

\* Either kind of instance with the scheduling the runtime provides once Close
\* is under way: a Close caller runs on to its wait, the loop goroutine takes a
\* ready case of its select in the end, each downstream call returns, and the
\* executor goroutine keeps running.
CloseFairSpec ==
    /\ Init
    /\ [][Next]_vars
    /\ WF_vars(\E c \in Callers : WheelCloseTurns(c))
    /\ WF_vars(WheelTurns)
    /\ WF_vars(WheelExit)
    /\ WF_vars(\E e \in BOOLEAN : WheelCallReturn(e))
    /\ WF_vars(\E c \in Callers : SliderCloseActive(c))
    /\ WF_vars(SliderActive)
    /\ WF_vars(SliderActiveExit)
    /\ WF_vars(TxPark)
    /\ WF_vars(TxExit)
    /\ WF_vars(TxSet)
    /\ WF_vars(\E e \in BOOLEAN : TxReturn(e))

\* The steps of a VFOWheel in service: the intake functions and the loop, with
\* no call of Close.
WheelRunNext ==
    \/ \E t \in TurnInputs : Turned(t)
    \/ \E m \in BOOLEAN, f \in FrequencyInputs : SetVFOFrequency(m, f)
    \/ WheelTurns
    \/ WheelFrequency
    \/ WheelTick
    \/ \E e \in BOOLEAN : WheelCallReturn(e)

\* The VFOWheel in service, with the ticker firing again and again: the tick
\* case of the loop's select is taken eventually while the loop waits in the
\* select.
WheelFairSpec ==
    /\ NewVFOWheel
    /\ [][WheelRunNext]_vars
    /\ WF_vars(WheelTick)

----------------------------------------------------------------------------
\* Properties

\* the loop's non-blocking send on tx goes through in this step
Handoff == txPc # "recv" /\ txPc' = "recv"
\* some Close call has returned
CloseReturned == \E c \in Callers : closePc[c] = "returned"
\* a controller call starts in this step
WheelCallStarts == wheelPc = "select" /\ wheelPc' = "call"

\* C1 (as claimed): at the tick that ends a window in which the loop processed
\* one or more targets, one handoff was made for the window (by a target or by
\* that tick), not more, and it carries the last target of the window. A window
\* whose handoff is still owed at its tick (executor busy) is not held against
\* the claim.
C1_ExactlyOnePerWindow ==
    [][(SliderTick /\ winTargets >= 1) =>
          LET made == winHandoffs + (IF Handoff THEN 1 ELSE 0)
          IN  /\ made <= 1
              /\ made = 1 => txValue' = lastTarget]_vars

\* C1 (amended): each processed target makes at most one handoff, at once and
\* not at the tick, and a tick makes at most one; every handoff is made by a
\* target or a tick and carries the last target the loop has processed.
C1_HandoffPerTarget ==
    /\ [](winHandoffs <= winTargets)
    /\ [][Handoff => /\ SliderSelected \/ SliderTick
                     /\ txValue' = lastTarget'
                     /\ txValue' = selectedValue']_vars

\* C1 witness: two targets processed in one window, each handed off at once.
C1_TwoCallsInWindow == winTargets = 2 /\ winHandoffs = 2 /\ txValue = lastTarget

\* a target is owed to the controller: a handoff failed and the value still
\* differs from what the feedback reports
Owed == pending /\ selectedValue # activeValue

\* C2 (as claimed): a target (other than the active value) processed while the
\* executor is inside s.set sets pending, and an owed target stops being owed
\* only by being handed to the executor or by a later target.
C2_PendingUntilDispatched ==
    [][/\ (SliderSelected /\ txPc = "set" /\ Head(s_selectedValue) # activeValue)
           => pending'
       /\ (Owed /\ txPc = "set" /\ ~Owed') => (Handoff \/ SliderSelected)]_vars

\* C2 (amended): a target that differs from activeValue, processed while the
\* executor is inside s.set, sets pending; an owed target is replaced only by a
\* later target and stops being owed only by a handoff of it, by a later target,
\* or by feedback that reports that very value; and an owed target is eventually
\* handed to the executor unless one of these happens first or Close is called.
C2_PendingDispatched ==
    /\ [][/\ (SliderSelected /\ txPc = "set" /\ Head(s_selectedValue) # activeValue)
              => pending'
          /\ (Owed /\ selectedValue' # selectedValue) => SliderSelected
          /\ (Owed /\ ~Owed')
              => \/ Handoff /\ txValue' = selectedValue
                 \/ SliderSelected
                 \/ SliderActive /\ activeValue' = selectedValue]_vars
    /\ Owed ~> \/ txPc = "recv" /\ txValue = selectedValue
               \/ ~Owed
               \/ nClose > 0

\* C2 witness: a target was processed while the executor was inside s.set and
\* waits for a tick.
C2_PendingWhileSetRuns ==
    /\ pending /\ txPc = "set" /\ lastCase = <<"selected", 0>> /\ lastTarget = selectedValue
    /\ selectedValue # activeValue /\ selectedValue # txValue

\* C3 (as claimed): a selected value is handed to the executor at most once as
\* long as it is unchanged.
C3_OneHandoffPerValue == sentCount <= 1

\* C3 (amended): a tick hands selectedValue off exactly when it differs from
\* activeValue and the executor is parked, whether or not that value was handed
\* off before; a tick that finds them equal makes no handoff.
C3_TickResends ==
    [][SliderTick => /\ Handoff <=> (activeValue # selectedValue /\ txPc = "wait")
                     /\ Handoff => txValue' = selectedValue
                     /\ UNCHANGED <<activeValue, selectedValue>>]_vars

\* C3 witness: the same unchanged value was handed off a second time by a tick.
C3_SameValueTwice == sentCount = 2 /\ txPc = "recv" /\ lastCase = <<"tick", 0>>

\* C4: once a Close call has returned, the loop's state does not change and no
\* controller call (SetVFOFrequency, set) starts.
C4_NothingAfterClose ==
    [][CloseReturned =>
          /\ UNCHANGED <<accumulatedTurns, turning, frequency, wheelPc>>
          /\ UNCHANGED <<activeValue, selectedValue, pending, sliderPc>>
          /\ ~WheelCallStarts
          /\ ~TxSet]_vars

\* C5: a Close call that starts after a Close call has returned returns at once
\* and changes nothing, and a Close call has returned only if the loop has exited.
C5_SecondCloseNoop ==
    /\ [](CloseReturned => (w_closed \/ s_closed))
    /\ [][\A c \in Callers :
            (CloseReturned /\ (WheelCloseSelect(c) \/ SliderCloseSelect(c)))
               => /\ closePc'[c] = "returned"
                  /\ UNCHANGED <<wheelVars, sliderVars, panicked>>]_vars

\* C5 witness: caller 1 called Close twice in sequence and is back from both.
C5_ClosedTwice ==
    nClose = 2 /\ closePc[1] = "returned" /\ closePc[2] = "idle" /\ ~panicked

\* C6: no caller of Turned, SetVFOFrequency, Changed or SetVolume is ever parked
\* in its send.
C6_NoCallerBlocks ==
    /\ turnedSendq = <<>> /\ frequencySendq = <<>>
    /\ changedSendq = <<>> /\ volumeSendq = <<>>

\* C7: while a controller call is in progress the decision loop can still take
\* a tick (it is in its select, not waiting for the call).
C7_LoopNotStalled ==
    /\ (txPc = "set" /\ sliderPc = "select" /\ ~panicked) => ENABLED SliderTick
    /\ (wheelPc = "call" /\ ~panicked) => ENABLED WheelTick

\* C8: a controller call starts only from a state in which frequency (the
\* baseline) is not zero.
C8_NoCallWithoutBaseline == [][WheelCallStarts => frequency # 0]_vars

\* C8 witness: a tick ran with turns accumulated and no baseline, and made no call.
C8_TurnsWithoutBaseline ==
    /\ frequency = 0 /\ accumulatedTurns # 0 /\ lastCase = <<"tick", 0>>
    /\ wheelPc = "select"

\* d * 1.8 rounded to the nearest integer, and truncated toward zero
C9_Rounded(d) ==
    CHOOSE k \in -(2 * d * d + 2)..(2 * d * d + 2) : 2 * (10 * k - 18 * d) \in -10..10
C9_Truncated(d) ==
    CHOOSE k \in -(2 * d * d + 2)..(2 * d * d + 2) :
        IF d >= 0 THEN 10 * k <= 18 * d /\ 18 * d < 10 * (k + 1)
                  ELSE 10 * (k - 1) < 18 * d /\ 18 * d <= 10 * k

C10_BaselineReport ==
    [][WheelFrequency =>
          /\ frequency' = IF turning THEN frequency ELSE Head(w_frequency)
          /\ UNCHANGED <<accumulatedTurns, turning>>]_vars

\* C10 witness: a report of another value was discarded while turning.
C10_DiscardedWhileTurning ==
    /\ turning /\ lastCase[1] = "frequency" /\ lastCase[2] # frequency

\* C11: a tick that finds activeValue = selectedValue sends nothing on tx (the
\* executor is left as it is, so no call follows from it), clears pending and
\* leaves activeValue and selectedValue alone.
C11_TickAtRest ==
    [][(SliderTick /\ activeValue = selectedValue) =>
          /\ ~Handoff
          /\ pending' = FALSE
          /\ UNCHANGED <<txPc, txValue, activeValue, selectedValue>>]_vars

\* C11 witness: a tick ran at rest on a value other than the initial one with
\* the executor parked, ready to receive.
C11_RestingTick ==
    /\ lastCase = <<"tick", 0>> /\ activeValue = selectedValue /\ activeValue # 0
    /\ txPc = "wait" /\ ~pending /\ sliderPc = "select"

\* C12: when the loop exits, and no intake channel holds a value sent after a
\* Close call began, nothing is left in an intake channel: every event enqueued
\* before Close was processed.
C12_DrainedAtExit ==
    [][/\ (WheelExit /\ ~lateSend) => (w_turns = <<>> /\ w_frequency = <<>>)
       /\ ((SliderActiveExit \/ SliderSelectedExit) /\ ~lateSend) =>
              (s_activeValue = <<>> /\ s_selectedValue = <<>>)]_vars

\* the loop took nothing out of w.turns in this step
TurnsKept == Len(w_turns') >= Len(w_turns) /\ SubSeq(w_turns', 1, Len(w_turns)) = w_turns

\* C13: accumulatedTurns is the sum of the deltas received since the last
\* dispatch: a received delta is added to it, the return of a dispatch's call
\* resets it to zero and nothing else changes it, a dispatch applies the whole
\* sum, and while the call is in progress the loop takes nothing out of w.turns,
\* so deltas enqueued meanwhile are received, and counted, afterwards.
C13_AccumulatorIsSum ==
    [][/\ WheelTurns => accumulatedTurns' = accumulatedTurns + Head(w_turns)
       /\ (\E e \in BOOLEAN : WheelCallReturn(e)) => accumulatedTurns' = 0
       /\ accumulatedTurns' # accumulatedTurns =>
              (WheelTurns \/ \E e \in BOOLEAN : WheelCallReturn(e))
       /\ WheelCallStarts => frequency' = frequency + C9_Truncated(accumulatedTurns)
       /\ wheelPc = "call" => (TurnsKept /\ (wheelPc' = "call" => UNCHANGED accumulatedTurns))]_vars

\* C13 witness: after the dispatch of a sum of 3 on baseline 10 (frequency 15),
\* the two later deltas 2 and -1 have been received and add up to 1.
C13_SumAfterDispatch ==
    /\ lastCase[1] = "turns" /\ frequency = 15 /\ accumulatedTurns = 1
    /\ wheelPc = "select" /\ nTurned = 3

\* turns are held back: deltas were received and no baseline is known
HeldBack == wheelPc = "select" /\ accumulatedTurns # 0 /\ frequency = 0

\* C14: while frequency is zero a tick leaves a non-zero accumulatedTurns as it
\* is and makes no call; a baseline report processed in that situation is taken
\* as the frequency; a tick that finds both non-zero dispatches the frequency
\* plus the scaled accumulated turns; and with the ticker firing and the wheel
\* in service, accumulated turns with a non-zero frequency lead to that
\* dispatch, unless further turns bring the sum to zero or a later report sets
\* the frequency to zero.
C14_HeldUntilBaseline ==
    /\ [][/\ (WheelTick /\ HeldBack) =>
                 (~WheelCallStarts /\ UNCHANGED <<accumulatedTurns, frequency>>)
          /\ (WheelFrequency /\ HeldBack) =>
                 (frequency' = Head(w_frequency) /\ UNCHANGED accumulatedTurns)
          /\ (WheelTick /\ accumulatedTurns # 0 /\ frequency # 0) =>
                 /\ WheelCallStarts
                 /\ frequency' = frequency + C9_Truncated(accumulatedTurns)
                 /\ UNCHANGED accumulatedTurns]_vars
    /\ (wheelPc = "select" /\ accumulatedTurns # 0 /\ frequency # 0)
          ~> (wheelPc = "call" \/ accumulatedTurns = 0 \/ frequency = 0)

\* C14 witness: the deltas 3 and 2 were received before any baseline was known
\* (turning stayed false), the baseline 10 arrived, and the tick dispatches 19.
C14_AppliedAfterBaseline ==
    /\ wheelPc = "call" /\ lastCase[1] = "tick" /\ ~turning
    /\ accumulatedTurns = 5 /\ frequency = 19 /\ nBaseline = 1

\* C15: when the controller call of a dispatch returns an error, the loop is
\* back in its select with accumulatedTurns = 0 and frequency equal to the value
\* just sent, and can take its next case; a call starts only with a non-zero
\* accumulatedTurns, and accumulatedTurns leaves zero only by a received turn,
\* so no tick calls again before a new turn arrives.
C15_FailedCallNotRetried ==
    /\ []((lastCase[1] = "dispatched" /\ err) =>
             /\ accumulatedTurns = 0 /\ frequency = lastCase[2] /\ wheelPc = "select"
             /\ ~panicked => ENABLED WheelTick)
    /\ [][/\ WheelCallReturn(TRUE) =>
                 (accumulatedTurns' = 0 /\ wheelPc' = "select" /\ UNCHANGED frequency)
          /\ WheelCallStarts => accumulatedTurns # 0
          /\ (accumulatedTurns = 0 /\ accumulatedTurns' # 0) => WheelTurns]_vars

\* C15 witness: the dispatch of 15 failed, and the tick after it made no call.
C15_TickAfterFailure ==
    /\ err /\ lastCase[1] = "tick" /\ wheelPc = "select"
    /\ accumulatedTurns = 0 /\ frequency = 15

\* C16: after the loop has processed a turn delta, turning equals
\* (frequency # 0), for negative frequencies too.
C16_TurningIffBaseline ==
    [][WheelTurns => turning' = (frequency' # 0)]_vars

\* C17: an active report sets activeValue; selectedValue is left alone when
\* pending is set or when the selected target has been handed to the executor,
\* and is overwritten with the report when pending is false and no target has
\* been sent to the Slider yet.
C17_TargetNeverReplaced ==
    [][SliderActive =>
          /\ activeValue' = Head(s_activeValue)
          /\ (pending \/ sentCount >= 1) => selectedValue' = selectedValue
          /\ (~pending /\ nChanged = 0) => selectedValue' = Head(s_activeValue)]_vars

\* C17 (amended): an active report sets activeValue, overwrites selectedValue
\* with it exactly when pending is false, whether or not a target was reported
\* before, and leaves pending alone.
C17_SelectedTracksActive ==
    [][SliderActive =>
          /\ activeValue' = Head(s_activeValue)
          /\ selectedValue' = IF pending THEN selectedValue ELSE Head(s_activeValue)
          /\ UNCHANGED pending]_vars

\* C17 witness: the target lastTarget was handed to the executor, and the active
\* report processed after it replaced it in selectedValue.
C17_TargetReplaced ==
    /\ lastCase = <<"active", 0>> /\ ~pending /\ txValue = lastTarget
    /\ selectedValue = activeValue /\ lastTarget # selectedValue /\ lastTarget # 0
    /\ txPc \in {"recv", "set"}

\* C18: whatever the interleaving of Close calls, no Close call closes an intake
\* channel that is closed already.
C18_ClosedAtMostOnce ==
    [][\A c \in Callers :
          /\ WheelCloseTurns(c) => ~w_turnsClosed
          /\ SliderCloseActive(c) => ~s_activeClosed
          /\ SliderCloseSelected(c) => ~s_selectedClosed]_vars

\* C19: no call of Turned, Changed or SetVolume sends on an intake channel that
\* Close has closed already.
C19_NoSendOnClosed ==
    [][/\ (\E t \in TurnInputs : Turned(t)) => ~w_turnsClosed
       /\ (\E v \in MidiInputs : Changed(v)) => ~s_selectedClosed
       /\ (\E v \in VolumeInputs : SetVolume(v)) => ~s_activeClosed]_vars

\* every goroutine of the instance has returned
AllReturned ==
    /\ wheelPc \in {"none", "done"}
    /\ sliderPc \in {"none", "done"}
    /\ txPc \in {"none", "done"}

\* C20: once Close has been called, the loop goroutine and, for a Slider, the
\* executor goroutine eventually return (or the process has panicked), the
\* executor whether it was parked or inside s.set when the loop exited.
C20_AllGoroutinesReturn == (nClose > 0) ~> (AllReturned \/ panicked)

\* C20 witness: the loop has exited after Close while the executor is inside
\* s.set.
C20_ExitDuringCall == s_closed /\ nClose > 0 /\ txPc = "set" /\ ~panicked
====
